---- MODULE Spec2Model ----
(***************************************************************************)
(* Model of main.py: Email, Phone, Contact, Phonebook, PhonebookConflict   *)
(* and the __main__ driver.                                                *)
(*                                                                         *)
(* Python values: a str is a sequence of one-character strings; None is    *)
(* the one-element sequence <<"None">> (no character is the string         *)
(* "None"); a Phone is <<"Phone", int_code, number, ext_code>>; an Email   *)
(* is <<"Email", address>>.  A Cyrillic letter is written "cyr_" and its    *)
(* transliteration.  A Contact is a record of its seven attributes.        *)
(* Accepted contacts are referred to by their position in Phonebook._list, *)
(* which only grows.                                                       *)
(***************************************************************************)
EXTENDS Integers, Sequences, FiniteSets, TLC

VARIABLES
    list,       \* Phonebook._list: sequence of Contact
    hash,       \* Phonebook._hash: sequence of [key, val], val an index of list
    conflicts,  \* Phonebook.conflicts: sequence of [source, dest, resolved]
    ret,        \* what the last call of add or merge returned or raised
    args,       \* the arguments of the last call of merge, where they are recorded
    pc,         \* position of the __main__ script
    rows,       \* rows of phonebook_raw.csv read so far (the header not counted)
    ci,         \* index of the conflict the __main__ loop is at
    out,        \* rows written to phonebook.csv
    text,       \* argument of Phone.parse_ru
    parsed      \* result of Phone.parse_ru, or NotRun

vars == <<list, hash, conflicts, ret, args, pc, rows, ci, out, text, parsed>>

bookVars == <<list, hash, conflicts, ret, args>>
mainVars == <<pc, rows, ci, out>>
parseVars == <<text, parsed>>

----------------------------------------------------------------------------
(* Python values *)

None == <<"None">>

IsNone(v) == v = None

\* str(None), as an f-string renders it
NoneText == <<"N", "o", "n", "e">>

Digit == {"0", "1", "2", "3", "4", "5", "6", "7", "8", "9"}

Lower == {"a", "b", "c", "d", "e", "f", "g", "h", "i", "j", "k", "l", "m",
          "n", "o", "p", "q", "r", "s", "t", "u", "v", "w", "x", "y", "z"}

Upper == {"A", "B", "C", "D", "E", "F", "G", "H", "I", "J", "K", "L", "M",
          "N", "O", "P", "Q", "R", "S", "T", "U", "V", "W", "X", "Y", "Z"}

\* \s, restricted to the blank
Space == {" "}

\* \w
Word == Lower \cup Upper \cup Digit \cup {"_"}

RECURSIVE Filter(_, _)
\* re.sub of every character outside cls by ''
Filter(s, cls) ==
    IF s = <<>> THEN <<>>
    ELSE IF Head(s) \in cls THEN <<Head(s)>> \o Filter(Tail(s), cls)
    ELSE Filter(Tail(s), cls)

RECURSIVE SkipWhile(_, _, _)
\* first position >= i of s whose character is outside cls (Len(s) + 1 if none)
SkipWhile(s, i, cls) ==
    IF i <= Len(s) /\ s[i] \in cls THEN SkipWhile(s, i + 1, cls) ELSE i

\* str.strip()
strip(s) ==
    LET a == SkipWhile(s, 1, Space)
        b == CHOOSE j \in 0..Len(s) :
                 /\ j = 0 \/ s[j] \notin Space
                 /\ \A k \in (j + 1)..Len(s) : s[k] \in Space
    IN  SubSeq(s, a, b)

----------------------------------------------------------------------------
(* Phone *)

\* the separators without the closing parenthesis
PhoneSepNoClose == Space \cup {"(", "-"}

\* [\s()-]
PhoneSep == Space \cup {"(", ")", "-"}

\* the class of RE_PHONE that precedes the extension: '(', the nine Cyrillic
\* letters of "dobavochnyj", '.', and \s
ExtMark ==
    Space \cup {"(", "."} \cup
    {"cyr_d", "cyr_o", "cyr_b", "cyr_a", "cyr_v", "cyr_ch", "cyr_n", "cyr_y", "cyr_j"}

\* the {10} of RE_PHONE
SubscriberDigits == 10

\* Phone.__init__
Phone(int_code, number, ext_code) == <<"Phone", int_code, Filter(number, Digit), ext_code>>

int_code(p) == p[2]
number(p) == p[3]
ext_code(p) == p[4]

RECURSIVE MatchNumber(_, _, _)
\* ([\s()-]*\d){n} from position i: the position after the n-th digit, 0 if no match
MatchNumber(s, i, n) ==
    IF n = 0 THEN i
    ELSE LET j == SkipWhile(s, i, PhoneSep)
         IN  IF j <= Len(s) /\ s[j] \in Digit THEN MatchNumber(s, j + 1, n - 1) ELSE 0

\* a country digit 7 only
CountryAtSeven(s, i) ==
    LET j == IF s[i] = "+" THEN i + 1 ELSE i
    IN  IF j <= Len(s) /\ s[j] = "7" THEN j ELSE 0

\* position of the country digit of a match of \+?([78]) that starts at i, 0 if none
CountryAt(s, i) ==
    LET j == IF s[i] = "+" THEN i + 1 ELSE i
    IN  IF j <= Len(s) /\ s[j] \in {"7", "8"} THEN j ELSE 0

\* RE_PHONE matched at position i: the position after group 2, 0 if no match
MatchAt(s, i) ==
    IF CountryAt(s, i) = 0 THEN 0 ELSE MatchNumber(s, CountryAt(s, i) + 1, SubscriberDigits)

\* RE_PHONE.search
Search(s) ==
    IF \E i \in 1..Len(s) : MatchAt(s, i) # 0
    THEN CHOOSE i \in 1..Len(s) : MatchAt(s, i) # 0 /\ \A k \in 1..(i - 1) : MatchAt(s, k) = 0
    ELSE 0

\* group 5 of a match whose group 2 ends before position e
ExtGroup(s, e) ==
    LET k == SkipWhile(s, e, ExtMark)
        m == SkipWhile(s, k, Digit)
    IN  IF m > k THEN SubSeq(s, k, m - 1) ELSE None

\* Phone.parse_ru
parse_ru(s) ==
    LET i == Search(s)
    IN  IF i = 0 THEN None
        ELSE LET c == CountryAt(s, i)
                 e == MatchAt(s, i)
             IN  Phone(7, Filter(SubSeq(s, c + 1, e - 1), Digit), ExtGroup(s, e))

\* str() of an int in 1..9
IntText(n) == <<(<<"1", "2", "3", "4", "5", "6", "7", "8", "9">>)[n]>>

\* the string Phone.__hash__ hashes: f'{int_code}{number}{ext_code}'
PhoneHashText(p) ==
    IntText(int_code(p)) \o number(p) \o (IF IsNone(ext_code(p)) THEN NoneText ELSE ext_code(p))

\* Phone.__eq__ with a Phone or None on the right
PhoneEq(p, q) ==
    IF IsNone(q) THEN FALSE
    ELSE int_code(p) = int_code(q) /\ number(p) = number(q) /\ ext_code(p) = ext_code(q)

\* parsed before parse_ru has run
NotRun == <<"NotRun">>

\* the subscriber number 999 111 22 33
BaseNumber == <<"9", "9", "9", "1", "1", "1", "2", "2", "3", "3">>

----------------------------------------------------------------------------
(* Email *)

\* [A-Za-z0-9._%+-]
EmailLocal == Lower \cup Upper \cup Digit \cup {".", "_", "%", "+", "-"}

\* [A-Za-z0-9.-]
EmailDomain == Lower \cup Upper \cup Digit \cup {".", "-"}

\* [A-Z|a-z]
EmailTld == Upper \cup Lower \cup {"|"}

\* \b between s[k] and s[k + 1]; k = 0 is the start and k = Len(s) the end of s
WordBoundary(s, k) ==
    (k >= 1 /\ s[k] \in Word) # (k < Len(s) /\ s[k + 1] \in Word)

\* RE_EMAIL.match(s): some prefix of s matches the pattern
EmailMatch(s) ==
    /\ WordBoundary(s, 0)
    /\ \E at \in 2..Len(s) : \E dot \in (at + 2)..Len(s) : \E e \in (dot + 2)..Len(s) :
        /\ \A k \in 1..(at - 1) : s[k] \in EmailLocal
        /\ s[at] = "@"
        /\ \A k \in (at + 1)..(dot - 1) : s[k] \in EmailDomain
        /\ s[dot] = "."
        /\ \A k \in (dot + 1)..e : s[k] \in EmailTld
        /\ WordBoundary(s, e)

\* Email.is_valid
is_valid(address) == EmailMatch(strip(address))

\* Email.__init__, for a valid address
Email(address) == <<"Email", strip(address)>>

address(e) == e[2]

\* Email.parse
EmailParse(a) == IF is_valid(a) THEN Email(a) ELSE None

----------------------------------------------------------------------------
(* Contact *)

Contact(first_name, last_name, surname, org, position, phone, email) ==
    [first_name |-> first_name, last_name |-> last_name, surname |-> surname,
     org |-> org, position |-> position, phone |-> phone, email |-> email]

\* truth value of an attribute: None and '' are false, any Phone or Email is true
Truthy(v) == ~IsNone(v) /\ v # <<>>

\* Contact.__str__ raises AttributeError when a name attribute is None (.title())
StrRaises(c) == IsNone(c.last_name) \/ IsNone(c.first_name) \/ IsNone(c.surname)

----------------------------------------------------------------------------
(* Phonebook._hash: a dict whose keys are Email, Phone and str objects *)

EmailKey(e) == [t |-> "Email", v |-> e]
PhoneKey(p) == [t |-> "Phone", v |-> p]
StrKey(s) == [t |-> "str", v |-> s]

\* the string whose hash is the key's hash
KeyHashText(k) ==
    IF k.t = "Email" THEN address(k.v)
    ELSE IF k.t = "Phone" THEN PhoneHashText(k.v)
    ELSE k.v

\* a == b for two keys (Email.__eq__, Phone.__eq__, str.__eq__ and their reflections)
KeyEq(a, b) ==
    IF a.t = "Email" /\ b.t = "Email" THEN address(a.v) = address(b.v)
    ELSE IF a.t = "Email" /\ b.t = "str" THEN address(a.v) = b.v
    ELSE IF a.t = "str" /\ b.t = "Email" THEN a.v = address(b.v)
    ELSE IF a.t = "Phone" /\ b.t = "Phone" THEN PhoneEq(a.v, b.v)
    ELSE IF a.t = "Phone" /\ b.t = "str" THEN PhoneEq(a.v, parse_ru(b.v))
    ELSE IF a.t = "str" /\ b.t = "Phone" THEN PhoneEq(b.v, parse_ru(a.v))
    ELSE IF a.t = "str" /\ b.t = "str" THEN a.v = b.v
    ELSE FALSE

\* the entry of dict h a lookup of key k lands on, 0 if none
Slot(h, k) ==
    IF \E n \in 1..Len(h) : KeyHashText(h[n].key) = KeyHashText(k) /\ KeyEq(h[n].key, k)
    THEN CHOOSE n \in 1..Len(h) : KeyHashText(h[n].key) = KeyHashText(k) /\ KeyEq(h[n].key, k)
    ELSE 0

\* dict.get(k): the index in _list of the contact found, 0 for None
DictGet(h, k) == IF Slot(h, k) = 0 THEN 0 ELSE h[Slot(h, k)].val

\* h[k] = val: an equal key keeps its entry and takes the new value
DictSet(h, k, val) ==
    IF Slot(h, k) = 0 THEN Append(h, [key |-> k, val |-> val])
    ELSE [h EXCEPT ![Slot(h, k)].val = val]

\* the phone never looked up
GetPhoneNever(h, c) == 0

\* _hash.get(contact.email), _hash.get(contact.phone): None is no key of the dict
GetEmail(h, c) == IF IsNone(c.email) THEN 0 ELSE DictGet(h, EmailKey(c.email))
GetPhone(h, c) == IF IsNone(c.phone) THEN 0 ELSE DictGet(h, PhoneKey(c.phone))

----------------------------------------------------------------------------
(* Phonebook.add *)

\* PhonebookConflict.__init__
PhonebookConflict(source, dest) == [source |-> source, dest |-> dest, resolved |-> FALSE]

\* the phone looked up before the e-mail
ChannelDuplicatePhoneFirst(l, h, c) ==
    IF GetPhone(h, c) # 0 THEN GetPhone(h, c) ELSE GetEmail(h, c)

\* self._hash.get(contact.email) or self._hash.get(contact.phone)
ChannelDuplicate(l, h, c) == IF GetEmail(h, c) # 0 THEN GetEmail(h, c) ELSE GetPhone(h, c)

\* contact.last_name + contact.first_name raises TypeError if either is None
NameRaises(c) == IsNone(c.last_name) \/ IsNone(c.first_name)

NameDuplicate(l, h, c) == DictGet(h, StrKey(c.last_name \o c.first_name))

\* the test without its middle disjunct
SameSurnameOneSided(d, c) == ~Truthy(d.surname) \/ d.surname = c.surname

\* the test of line 166 on the contact found under the name
SameSurname(d, c) == ~Truthy(d.surname) \/ ~Truthy(c.surname) \/ d.surname = c.surname

\* a name key already present keeps its record
AcceptKeepName(l, h, c) ==
    LET n == Len(l) + 1
        h1 == IF Truthy(c.email) THEN DictSet(h, EmailKey(c.email), n) ELSE h
        h2 == IF Truthy(c.phone) THEN DictSet(h1, PhoneKey(c.phone), n) ELSE h1
        k == StrKey(c.last_name \o c.first_name)
    IN  [list |-> Append(l, c),
         hash |-> IF Slot(h2, k) = 0 THEN DictSet(h2, k, n) ELSE h2]

\* lines 169-174
Accept(l, h, c) ==
    LET n == Len(l) + 1
        h1 == IF Truthy(c.email) THEN DictSet(h, EmailKey(c.email), n) ELSE h
        h2 == IF Truthy(c.phone) THEN DictSet(h1, PhoneKey(c.phone), n) ELSE h1
    IN  [list |-> Append(l, c),
         hash |-> DictSet(h2, StrKey(c.last_name \o c.first_name), n)]

\* what Phonebook.add(c) does to a phonebook (l, h, cf), and what it returns:
\* "False", the class object "Contact" (line 175), or a raised "TypeError"
AddOutcome(l, h, cf, c) ==
    IF ChannelDuplicate(l, h, c) # 0
    THEN [list |-> l, hash |-> h, ret |-> "False",
          conflicts |-> Append(cf, PhonebookConflict(ChannelDuplicate(l, h, c), c))]
    ELSE IF NameRaises(c)
    THEN [list |-> l, hash |-> h, ret |-> "TypeError", conflicts |-> cf]
    ELSE IF NameDuplicate(l, h, c) # 0 /\ SameSurname(l[NameDuplicate(l, h, c)], c)
    THEN [list |-> l, hash |-> h, ret |-> "False",
          conflicts |-> Append(cf, PhonebookConflict(NameDuplicate(l, h, c), c))]
    ELSE [list |-> Accept(l, h, c).list, hash |-> Accept(l, h, c).hash,
          ret |-> "Contact", conflicts |-> cf]

----------------------------------------------------------------------------
(* PhonebookConflict.merge *)

\* the keys of line 228, in order
MergeKeys == <<"first_name", "last_name", "surname", "org", "position", "phone", "email">>

Fields == {MergeKeys[k] : k \in 1..Len(MergeKeys)}

RECURSIVE MergeLoopBlanking(_, _, _, _)
\* the loop without the test for an empty new value
MergeLoopBlanking(source, dest, keys, ignore) ==
    IF keys = <<>> THEN source
    ELSE LET key == Head(keys)
             new_value == dest[key]
         IN  IF key \in ignore \/ new_value = source[key]
             THEN MergeLoopBlanking(source, dest, Tail(keys), ignore)
             ELSE MergeLoopBlanking([source EXCEPT ![key] = new_value], dest, Tail(keys), ignore)

RECURSIVE MergeLoop(_, _, _, _)
\* the loop of lines 228-232 over the keys left
MergeLoop(source, dest, keys, ignore) ==
    IF keys = <<>> THEN source
    ELSE LET key == Head(keys)
             new_value == dest[key]
         IN  IF key \in ignore \/ ~Truthy(new_value) \/ new_value = source[key]
             THEN MergeLoop(source, dest, Tail(keys), ignore)
             ELSE MergeLoop([source EXCEPT ![key] = new_value], dest, Tail(keys), ignore)

\* conflict n of cf merged: the new _list and conflicts
MergeOutcome(l, cf, n, ignore) ==
    [list |-> [l EXCEPT ![cf[n].source] = MergeLoop(l[cf[n].source], cf[n].dest, MergeKeys, ignore)],
     conflicts |-> [cf EXCEPT ![n].resolved = TRUE]]

----------------------------------------------------------------------------
(* Calls on a Phonebook *)

\* args before any recorded call
NoArgs == [conflict |-> 0, ignore |-> {}]

\* most calls of add in a run
MaxAdds == 3

Yu == <<"Y", "u">>
Bo == <<"B", "o">>
Li == <<"L", "i">>
Ann == <<"A", "n", "n">>
Bea == <<"B", "e", "a">>
Acme == <<"A", "c", "m", "e">>
Engineer == <<"E", "n", "g">>

Phone1 == parse_ru(<<"+", "7">> \o BaseNumber)
Phone2 == parse_ru(<<"8", " ">> \o [BaseNumber EXCEPT ![1] = "8"])
Email1 == EmailParse(<<"a", "@", "x", ".", "c", "o", "m">>)

\* the contacts handed to add: one last and first name, with or without a
\* middle name, with or without phone and e-mail
Contacts ==
    {Contact(Yu, Li, surname, None, None, channel[1], channel[2]) :
        surname \in {None, Ann, Bea},
        channel \in {<<None, None>>, <<Phone1, Email1>>, <<Phone2, None>>, <<Phone2, Email1>>}}

\* the ignore arguments of merge: nothing, every key, one key, and two sets
\* that split the keys
IgnoreSets ==
    {{}, Fields, {"phone"}, {"surname"},
     {"first_name", "surname", "position", "email"}, {"last_name", "org", "phone"}}

\* the ignore arguments where they are not recorded: the default, and keeping
\* phone and e-mail
IgnoreChoices == {{}, {"phone", "email"}}

Init ==
    /\ list = <<>> /\ hash = <<>> /\ conflicts = <<>> /\ ret = "none" /\ args = NoArgs
    /\ pc = "idle" /\ rows = <<>> /\ ci = 0 /\ out = <<>>
    /\ text = <<>> /\ parsed = NotRun

\* Phonebook.add(contact)
add(contact) ==
    \E r \in {AddOutcome(list, hash, conflicts, contact)} :
        /\ list' = r.list
        /\ hash' = r.hash
        /\ conflicts' = r.conflicts
        /\ ret' = r.ret

\* conflicts[n].merge(ignore)
merge(n, ignore) ==
    \E r \in {MergeOutcome(list, conflicts, n, ignore)} :
        /\ list' = r.list
        /\ conflicts' = r.conflicts
        /\ ret' = "None"
        /\ UNCHANGED hash

Add ==
    /\ Len(list) + Len(conflicts) < MaxAdds
    /\ \E contact \in Contacts : add(contact)
    /\ UNCHANGED <<args, mainVars, parseVars>>

Merge ==
    /\ \E n \in 1..Len(conflicts), ignore \in IgnoreChoices : merge(n, ignore)
    /\ UNCHANGED <<args, mainVars, parseVars>>

Next == Add \/ Merge

Spec == Init /\ [][Next]_vars

----------------------------------------------------------------------------
(* Calls of merge with their arguments recorded *)

\* most calls of add in a run that records the arguments of merge
MaxMergeAdds == 2

\* contacts with either first name; a middle name and no work details, or an
\* empty middle name and both details; and a phone or an e-mail in common
MergeContacts ==
    {Contact(first_name, Li, details[1], details[2], details[3], channel[1], channel[2]) :
        first_name \in {Yu, Bo},
        details \in {<<Ann, None, None>>, <<<<>>, Acme, Engineer>>},
        channel \in {<<Phone1, Email1>>, <<Phone2, Email1>>, <<Phone1, None>>}}

AddForMerge ==
    /\ Len(list) + Len(conflicts) < MaxMergeAdds
    /\ \E contact \in MergeContacts : add(contact)
    /\ UNCHANGED <<args, mainVars, parseVars>>

MergeRecorded ==
    /\ \E n \in 1..Len(conflicts), ignore \in IgnoreSets :
          /\ merge(n, ignore)
          /\ args' = [conflict |-> n, ignore |-> ignore]
    /\ UNCHANGED <<mainVars, parseVars>>

NextMerge == AddForMerge \/ MergeRecorded

SpecMerge == Init /\ [][NextMerge]_vars

----------------------------------------------------------------------------
(* Claims about Phonebook.add and PhonebookConflict.merge *)

\* a step in which add returned: the contact went to _list or into a conflict
AddStep == Len(list') + Len(conflicts') = Len(list) + Len(conflicts) + 1

Accepted == Len(list') = Len(list) + 1

\* the contact that was handed to add in an AddStep
Added == IF Accepted THEN list'[Len(list')] ELSE conflicts'[Len(conflicts')].dest

\* the accepted records the lookup holds under e-mail e, phone p, name key s
UnderEmail(e) ==
    {hash[n].val : n \in {m \in 1..Len(hash) : hash[m].key = [t |-> "Email", v |-> e]}}
UnderPhone(p) ==
    {hash[n].val : n \in {m \in 1..Len(hash) : hash[m].key = [t |-> "Phone", v |-> p]}}
UnderName(s) ==
    {hash[n].val : n \in {m \in 1..Len(hash) : hash[m].key = [t |-> "str", v |-> s]}}

NoChannelMatch(c) == UnderEmail(c.email) = {} /\ UnderPhone(c.phone) = {}

NoMiddleName(c) == c.surname \in {None, <<>>}

ConflictAppended(source, dest) ==
    /\ conflicts' = Append(conflicts, [source |-> source, dest |-> dest, resolved |-> FALSE])
    /\ list' = list
    /\ hash' = hash

\* C1: when an accepted record R is registered under e-mail e, add of a record
\* with e-mail e returns False, appends exactly one conflict with source R and
\* the new record as dest, and leaves the accepted sequence unchanged.
C1_EmailConflict ==
    [][\A R \in UnderEmail(Added.email) :
          AddStep => ret' = "False" /\ ConflictAppended(R, Added)]_vars

C1_Witness ==
    \E k \in 1..Len(conflicts) :
        LET c == conflicts[k]
        IN  /\ ~IsNone(c.dest.email)
            /\ UnderEmail(c.dest.email) = {c.source}
            /\ UnderPhone(c.dest.phone) \notin {{}, {c.source}}
            /\ ~NoMiddleName(c.dest) /\ ~NoMiddleName(list[c.source])
            /\ c.dest.surname # list[c.source].surname

\* C2: for a record without e-mail or phone match whose lastName+firstName key
\* maps to R: a conflict with source R and False when R or the record has no
\* middle name or both have the same; accepted as a new record, no conflict
\* added, when both middle names are given and differ.
C2_NameChannel ==
    [][\A R \in UnderName(Added.last_name \o Added.first_name) :
          (AddStep /\ NoChannelMatch(Added)) =>
              IF NoMiddleName(list[R]) \/ NoMiddleName(Added) \/ list[R].surname = Added.surname
              THEN ret' = "False" /\ ConflictAppended(R, Added)
              ELSE list' = Append(list, Added) /\ conflicts' = conflicts]_vars

C2_Witness ==
    /\ Len(list) = 2
    /\ list[1].last_name \o list[1].first_name = list[2].last_name \o list[2].first_name
    /\ ~NoMiddleName(list[1]) /\ ~NoMiddleName(list[2]) /\ list[1].surname # list[2].surname
    /\ IsNone(list[2].email) /\ IsNone(list[2].phone)
    /\ \E k \in 1..Len(conflicts) :
          /\ IsNone(conflicts[k].dest.email) /\ IsNone(conflicts[k].dest.phone)
          /\ conflicts[k].source = 2
          /\ NoMiddleName(conflicts[k].dest)

\* C6 as claimed: add returns the boolean True exactly when the record was
\* appended to the accepted sequence, and the boolean False exactly when a
\* conflict was appended.
C6_ReturnsBoolean ==
    [][AddStep =>
          /\ ret' \in {"True", "False"}
          /\ ret' = "True" <=> Accepted
          /\ ret' = "False" <=> Len(conflicts') = Len(conflicts) + 1]_vars

\* C9: every acceptance registers the accepted record under its
\* lastName+firstName key in place of any record registered there before; so
\* when a record of name N and middle name A is accepted and the record
\* registered under N has another middle name B, a new record of name N and
\* middle name A without e-mail or phone match is accepted and no conflict is
\* recorded.
C9_LastOfName ==
    [][AddStep =>
          LET N == Added.last_name \o Added.first_name
          IN  /\ Accepted =>
                  \E n \in 1..Len(hash') :
                      /\ hash'[n] = [key |-> [t |-> "str", v |-> N], val |-> Len(list')]
                      /\ \A m \in 1..Len(hash') : hash'[m].key = hash'[n].key => m = n
              /\ \A j \in UnderName(N) :
                  (/\ NoChannelMatch(Added)
                   /\ ~NoMiddleName(Added) /\ ~NoMiddleName(list[j])
                   /\ list[j].surname # Added.surname
                   /\ \E i \in 1..Len(list) :
                         /\ i # j
                         /\ list[i].last_name \o list[i].first_name = N
                         /\ list[i].surname = Added.surname)
                  => list' = Append(list, Added) /\ conflicts' = conflicts]_vars

C9_Witness ==
    /\ Len(list) = 3 /\ conflicts = <<>>
    /\ \A k \in 1..3 : IsNone(list[k].email) /\ IsNone(list[k].phone)
    /\ \A k \in 2..3 : list[k].last_name \o list[k].first_name = list[1].last_name \o list[1].first_name
    /\ ~NoMiddleName(list[1]) /\ ~NoMiddleName(list[2])
    /\ list[1].surname # list[2].surname /\ list[3].surname = list[1].surname
    /\ UnderName(list[1].last_name \o list[1].first_name) = {3}

NoSharedChannel ==
    \A i, j \in 1..Len(list) :
        i # j =>
            /\ ~IsNone(list[i].email) => list[i].email # list[j].email
            /\ ~IsNone(list[i].phone) => list[i].phone # list[j].phone

\* C10 as claimed: after any calls of add and merge, no two accepted records
\* have the same e-mail and no two have the same phone.
C10_NoSharedChannel == NoSharedChannel

\* C10 amended: as long as no conflict has been merged, no two accepted
\* records have the same e-mail and no two have the same phone.
C10_NoSharedChannelBeforeMerge ==
    (\A k \in 1..Len(conflicts) : ~conflicts[k].resolved) => NoSharedChannel

C10_Witness ==
    /\ Len(list) >= 2
    /\ ~IsNone(list[1].phone) /\ ~IsNone(list[2].phone)
    /\ conflicts # <<>>
    /\ \A k \in 1..Len(conflicts) : ~conflicts[k].resolved
    /\ conflicts[1].dest.phone = list[2].phone
    /\ conflicts[1].source = 1

\* a step in which merge returned
MergeStep == ret' = "None"

\* C3: merge sets a field of source to dest's value exactly when the field is
\* not ignored and dest's value is non-empty and differs from source's; every
\* other field, dest, every other record and the lookup stay as they were (so
\* no populated field is blanked), and resolved is true afterwards.
C3_MergePolicy ==
    [][MergeStep =>
          LET n == args'.conflict
              source == conflicts[n].source
              dest == conflicts[n].dest
          IN  /\ \A f \in Fields :
                    list'[source][f] =
                        IF f \notin args'.ignore /\ dest[f] \notin {None, <<>>}
                           /\ dest[f] # list[source][f]
                        THEN dest[f] ELSE list[source][f]
              /\ \A f \in Fields :
                    list[source][f] \notin {None, <<>>} => list'[source][f] \notin {None, <<>>}
              /\ \A k \in 1..Len(list) : k # source => list'[k] = list[k]
              /\ Len(list') = Len(list)
              /\ conflicts' = [conflicts EXCEPT ![n].resolved = TRUE]
              /\ hash' = hash]_vars

C3_Witness ==
    /\ args.conflict # 0
    /\ LET c == conflicts[args.conflict]
       IN  /\ c.resolved
           /\ args.ignore = {"phone"}
           /\ ~IsNone(c.dest.phone) /\ c.dest.phone # list[c.source].phone
           /\ ~IsNone(c.dest.org) /\ c.dest.org = list[c.source].org
           /\ c.dest.surname = <<>> /\ list[c.source].surname \notin {None, <<>>}

----------------------------------------------------------------------------
(* Phonebook.load_csv_file, Phonebook.save_csv_file and __main__ *)

RECURSIVE Split(_)
\* str.split(' '): the pieces between blanks, empty pieces included
Split(s) ==
    IF \A k \in 1..Len(s) : s[k] # " " THEN <<s>>
    ELSE LET k == CHOOSE b \in 1..Len(s) : s[b] = " " /\ \A a \in 1..(b - 1) : s[a] # " "
         IN  <<SubSeq(s, 1, k - 1)>> \o Split(SubSeq(s, k + 1, Len(s)))

\* ' '.join(row[:3]).strip().split(' ')
FullName(row) == Split(strip(row[1] \o <<" ">> \o row[2] \o <<" ">> \o row[3]))

\* the Contact of lines 185-193
RowContact(row) ==
    LET full_name == FullName(row)
    IN  Contact(IF Len(full_name) > 1 THEN full_name[2] ELSE None,
                IF Len(full_name) > 0 THEN full_name[1] ELSE None,
                IF Len(full_name) > 2 THEN full_name[3] ELSE None,
                IF Len(strip(row[4])) > 0 THEN strip(row[4]) ELSE None,
                IF Len(strip(row[5])) > 0 THEN strip(row[5]) ELSE None,
                parse_ru(row[6]),
                EmailParse(row[7]))

RECURSIVE FormatNumber(_)
\* re.sub(r"(\d{3})(\d{3})(\d{2})(\d{2})", "(\\1)\\2-\\3-\\4", number)
FormatNumber(n) ==
    IF Len(n) < 10 THEN n
    ELSE <<"(">> \o SubSeq(n, 1, 3) \o <<")">> \o SubSeq(n, 4, 6) \o <<"-">> \o SubSeq(n, 7, 8)
         \o <<"-">> \o SubSeq(n, 9, 10) \o FormatNumber(SubSeq(n, 11, Len(n)))

\* Phone.__str__
PhoneStr(p) ==
    <<"+">> \o IntText(int_code(p)) \o FormatNumber(number(p))
    \o (IF Truthy(ext_code(p)) THEN <<" ", "cyr_d", "cyr_o", "cyr_b", ".">> \o ext_code(p) ELSE <<>>)

\* what csv.writer writes for a value: '' for None, str() of a Phone or an Email
Cell(v) ==
    IF IsNone(v) \/ v = <<>> THEN <<>>
    ELSE IF Head(v) = "Phone" THEN PhoneStr(v)
    ELSE IF Head(v) = "Email" THEN address(v)
    ELSE v

csv_header ==
    << <<"l", "a", "s", "t", "n", "a", "m", "e">>, <<"f", "i", "r", "s", "t", "n", "a", "m", "e">>,
       <<"s", "u", "r", "n", "a", "m", "e">>, <<"o", "r", "g", "a", "n", "i", "z", "a", "t", "i", "o", "n">>,
       <<"p", "o", "s", "i", "t", "i", "o", "n">>, <<"p", "h", "o", "n", "e">>, <<"e", "m", "a", "i", "l">> >>

\* the rows save_csv_file writes
Saved(l) ==
    <<csv_header>> \o
    [k \in 1..Len(l) |->
        <<Cell(l[k].last_name), Cell(l[k].first_name), Cell(l[k].surname), Cell(l[k].org),
          Cell(l[k].position), Cell(l[k].phone), Cell(l[k].email)>>]

\* most rows of phonebook_raw.csv after its header
MaxRows == 3

Text1 == <<"+", "7", " ", "9", "9", "9", " ", "1", "1", "1", " ", "2", "2", " ", "3", "3">>
Text2 == <<"8", "(", "8", "9", "9", ")", "1", "1", "1", "-", "2", "2", "-", "3", "3">>
Mail1 == <<"a", "@", "x", ".", "c", "o", "m">>
Mail2 == <<" ", "b", "@", "x", ".", "r", "u", " ">>

\* the rows a file is made of
RowSet ==
    { <<Li, Yu, <<>>, <<>>, <<>>, Text1, Mail1>>,
      <<Li, Yu, <<>>, Acme, Engineer, Text1, <<>>>>,
      <<Li, Yu, Ann, <<>>, <<>>, <<>>, <<>>>>,
      <<Li \o <<" ">> \o Bo \o <<" ">> \o Bea, <<>>, <<>>, Acme, <<>>, Text2, Mail2>>,
      <<Li, Bo, Ann, <<>>, Engineer, Text2, Mail1>>,
      <<Li, <<>>, <<>>, <<>>, <<>>, <<"1", "2", "3">>, <<"a", "@", "x">>>>,
      <<Li, <<>>, Ann, <<>>, <<>>, Text1, <<>>>>,
      <<<<>>, <<>>, <<>>, <<>>, <<>>, <<>>, <<>>>> }

InitMain ==
    /\ list = <<>> /\ hash = <<>> /\ conflicts = <<>> /\ ret = "none" /\ args = NoArgs
    /\ pc = "load" /\ rows = <<>> /\ ci = 0 /\ out = <<>>
    /\ text = <<>> /\ parsed = NotRun

\* one turn of the loop of load_csv_file; an exception of add leaves the script
LoadRow ==
    /\ pc = "load"
    /\ Len(rows) < MaxRows
    /\ \E row \in RowSet :
          /\ rows' = Append(rows, row)
          /\ add(RowContact(row))
    /\ pc' = IF ret' = "TypeError" THEN "failed" ELSE "load"
    /\ UNCHANGED <<args, ci, out, parseVars>>

\* the end of the file: load_csv_file returns and the loop of line 239 starts
LoadDone ==
    /\ pc = "load"
    /\ pc' = "merge"
    /\ ci' = 1
    /\ UNCHANGED <<bookVars, rows, out, parseVars>>

\* one turn of the loop of lines 239-242: both f-strings call Contact.__str__
\* of the source, which raises when a name is None
MergeNext ==
    /\ pc = "merge"
    /\ ci <= Len(conflicts)
    /\ IF StrRaises(list[conflicts[ci].source])
       THEN /\ pc' = "failed"
            /\ ret' = "AttributeError"
            /\ UNCHANGED <<list, hash, conflicts, ci>>
       ELSE /\ merge(ci, {})
            /\ pc' = IF StrRaises(list'[conflicts[ci].source]) THEN "failed" ELSE "merge"
            /\ ci' = ci + 1
    /\ UNCHANGED <<args, rows, out, parseVars>>

\* line 243
Save ==
    /\ pc = "merge"
    /\ ci > Len(conflicts)
    /\ out' = Saved(list)
    /\ pc' = "done"
    /\ UNCHANGED <<bookVars, rows, ci, parseVars>>

NextMain == LoadRow \/ LoadDone \/ MergeNext \/ Save

SpecMain == InitMain /\ [][NextMain]_vars

----------------------------------------------------------------------------
(* Claims about the run of __main__ *)

\* a step of load_csv_file
LoadStep == rows' # rows

\* C5 as claimed: add raises nothing for a record the loader builds; it ends
\* with the record accepted or a conflict recorded, never both, and the load
\* goes on.
C5_AddCompletes ==
    [][LoadStep =>
          /\ ret' # "TypeError"
          /\ Accepted # (Len(conflicts') = Len(conflicts) + 1)
          /\ pc' = "load"]_vars

\* the file of the end-to-end example: a row with last and first name, no
\* middle name, a phone and an e-mail, then a row with the same names and
\* phone, an organization, a position and no e-mail
IsExampleFile(rs) ==
    /\ Len(rs) = 2
    /\ Len(FullName(rs[1])) = 2
    /\ \A k \in 1..2 : FullName(rs[1])[k] # <<>>
    /\ ~IsNone(parse_ru(rs[1][6])) /\ ~IsNone(EmailParse(rs[1][7]))
    /\ FullName(rs[2]) = FullName(rs[1])
    /\ rs[2][6] = rs[1][6]
    /\ strip(rs[2][4]) # <<>> /\ strip(rs[2][5]) # <<>>
    /\ rs[2][7] = <<>>

\* C4 as claimed: the run on the example file ends with one conflict, merged,
\* and one accepted record that has the organization and position of the
\* second row and the phone and e-mail of the first, which is exported.
C4_EndToEnd ==
    (pc \in {"done", "failed"} /\ IsExampleFile(rows)) =>
        /\ pc = "done"
        /\ Len(conflicts) = 1 /\ conflicts[1].resolved
        /\ Len(list) = 1
        /\ list[1].org = strip(rows[2][4]) /\ list[1].position = strip(rows[2][5])
        /\ list[1].phone = parse_ru(rows[1][6]) /\ list[1].email = EmailParse(rows[1][7])
        /\ Len(out) = 2

----------------------------------------------------------------------------
(* Inputs of Phone.parse_ru *)

\* most separator groups a written number has
MaxSeps == 1

\* BaseNumber, and the same with one digit replaced by a 7 or an 8
Numbers ==
    {BaseNumber} \cup
    {[BaseNumber EXCEPT ![k] = d] : k \in 1..Len(BaseNumber), d \in {"7", "8"}}

GapSeps == {<<" ">>, <<"(">>, <<")">>, <<"-">>, <<" ", "(">>}

\* a style writes a separator group before the country digit (gap 0) and after
\* each of the eleven digits (gaps 1..11); at most `most` groups are not empty
Gaps == 0..(Len(BaseNumber) + 1)

Styles(most) ==
    UNION {{[g \in Gaps |-> IF g \in G THEN f[g] ELSE <<>>] : f \in [G -> GapSeps]} :
           G \in {H \in SUBSET Gaps : Cardinality(H) <= most}}

RECURSIVE Spread(_, _, _)
\* the digits ds, each followed by its separator group
Spread(ds, style, g) ==
    IF ds = <<>> THEN <<>>
    ELSE <<Head(ds)>> \o style[g] \o Spread(Tail(ds), style, g + 1)

Render(plus, cc, num, style) ==
    (IF plus THEN <<"+">> ELSE <<>>) \o style[0] \o Spread(<<cc>> \o num, style, 1)

PlainStyle == [g \in Gaps |-> <<>>]

\* written numbers: a country digit 7 or 8 or a trunk-less 1, ten digits, any style
Written(most) ==
    {Render(plus, cc, num, style) :
        plus \in BOOLEAN, cc \in {"7", "8", "1"}, num \in Numbers, style \in Styles(most)}

\* too short, with an extension, inside other text, or no number at all
Others ==
    {Render(plus, cc, SubSeq(num, 1, Len(num) - 1), PlainStyle) :
        plus \in BOOLEAN, cc \in {"7", "8"}, num \in Numbers}
    \cup {Render(FALSE, cc, num, PlainStyle) \o tail :
        cc \in {"7", "8"}, num \in Numbers,
        tail \in {<<"4", "4">>, <<" ", "(", "cyr_d", "cyr_o", "cyr_b", ".", " ", "4", "4">>, <<" ", "x", "4">>}}
    \cup {<<"t", ".", " ">> \o Render(plus, cc, num, PlainStyle) :
        plus \in BOOLEAN, cc \in {"7", "8"}, num \in Numbers}
    \cup {<<>>, <<"x">>, <<"+">>, <<"+", "7">>}

PhoneTexts(most) == Written(most) \cup Others

InitParse ==
    /\ text \in PhoneTexts(MaxSeps)
    /\ parsed = NotRun
    /\ list = <<>> /\ hash = <<>> /\ conflicts = <<>> /\ ret = "none" /\ args = NoArgs
    /\ pc = "idle" /\ rows = <<>> /\ ci = 0 /\ out = <<>>

ParseRu ==
    /\ parsed = NotRun
    /\ parsed' = parse_ru(text)
    /\ UNCHANGED <<text, bookVars, mainVars>>

NextParse == ParseRu

SpecParse == InitParse /\ [][NextParse]_vars

----------------------------------------------------------------------------
(* Claims about Phone.parse_ru *)

ClaimSeps == {" ", "(", ")", "-"}

\* s writes country code 7 and ten subscriber digits with separators from
\* ClaimSeps between them, with or without a leading '+'
IsRendering7(s) ==
    /\ \A i \in 1..Len(s) : s[i] \in Digit \cup ClaimSeps \/ (i = 1 /\ s[i] = "+")
    /\ Len(Filter(s, Digit)) = 11
    /\ Head(Filter(s, Digit)) = "7"

\* C7: every rendering of a 10-digit subscriber number with country code 7,
\* whatever its separators and with or without '+', parses to the Phone with
\* int_code 7, those ten digits and no extension, which compares equal to and
\* hashes as the Phone parsed from the bare eleven digits.
C7_SameValue ==
    (parsed # NotRun /\ IsRendering7(text)) =>
        LET digits == Filter(text, Digit)
            plain == parse_ru(digits)
        IN  /\ parsed = <<"Phone", 7, Tail(digits), None>>
            /\ PhoneEq(parsed, plain)
            /\ PhoneHashText(parsed) = PhoneHashText(plain)

C7_Witness ==
    /\ parsed # NotRun /\ IsRendering7(text)
    /\ Head(text) = "+" /\ Len(text) > 12
    /\ \E i \in 1..Len(text) : text[i] = ")"

\* text has a digit of cc followed by ten digits, separators allowed between
HasOccurrence(s, cc) ==
    \E i \in 1..Len(s) : \E e \in (i + 1)..Len(s) :
        /\ s[i] \in cc
        /\ s[e] \in Digit
        /\ \A k \in (i + 1)..e : s[k] \in Digit \cup {" ", "(", ")", "-"}
        /\ Len(Filter(SubSeq(s, i + 1, e), Digit)) = 10

\* C8 as claimed: parse_ru returns a Phone exactly when the text has a 7
\* followed by ten subscriber digits, and None otherwise.
C8_OnlySeven ==
    parsed # NotRun => (~IsNone(parsed) <=> HasOccurrence(text, {"7"}))

\* C8 amended: parse_ru returns a Phone exactly when the text has a 7 or an 8
\* followed by ten subscriber digits, and None otherwise; the Phone's
\* int_code is 7 in both cases.
C8_SevenOrEight ==
    parsed # NotRun =>
        /\ ~IsNone(parsed) <=> HasOccurrence(text, {"7", "8"})
        /\ ~IsNone(parsed) => int_code(parsed) = 7 /\ Len(number(parsed)) = 10

C8_Witness ==
    /\ parsed # NotRun /\ ~IsNone(parsed)
    /\ Head(Filter(text, Digit)) = "8"
    /\ ~HasOccurrence(text, {"7"})

====
